---- MODULE Spec2Model ----
(***************************************************************************)
(* Model of ikk_simulation.py: key generation, encryption, decryption and  *)
(* the ciphertext-only attack of the Ivanov-Kabatiansky-Krouk cryptosystem *)
(* over GF(q), together with the trial loop of test().                     *)
(*                                                                         *)
(* Matrices are functions [1..rows -> [1..cols -> 0..q-1]]; vectors are    *)
(* functions [1..len -> 0..q-1].  Indices are 1-based, so the pivot tuple  *)
(* J holds the source's column indices plus one.                           *)
(***************************************************************************)
EXTENDS Integers, Sequences, FiniteSets, TLC

(* ---------------------------------------------------------------------- *)
(* Field GF(q), q prime                                                    *)
(* ---------------------------------------------------------------------- *)
q == 2

R == 0 .. (q - 1)

FAdd(a, b) == (a + b) % q

FSub(a, b) == (a + q - b) % q

FMul(a, b) == (a * b) % q

FInv(a) == CHOOSE b \in R : (a * b) % q = 1

Min(a, b) == IF a <= b THEN a ELSE b

(* ---------------------------------------------------------------------- *)
(* Matrices and vectors over GF(q)                                         *)
(* ---------------------------------------------------------------------- *)
NRows(A) == Len(A)

NCols(A) == Len(A[1])

Vectors(len) == [1 .. len -> R]

Matrices(r, c) == [1 .. r -> [1 .. c -> R]]

RECURSIVE Dot(_, _, _)
\* sum over t = 1..len of x[t] * y[t], reduced into GF(q)
Dot(x, y, len) ==
    IF len = 0 THEN 0 ELSE FAdd(Dot(x, y, len - 1), FMul(x[len], y[len]))

\* A * B for an r x m matrix A and an m x c matrix B (c given: B may have no rows)
MatMul(A, B, c) ==
    [i \in 1 .. NRows(A) |->
        [j \in 1 .. c |-> Dot(A[i], [t \in 1 .. Len(B) |-> B[t][j]], Len(B))]]

\* v * B for a row vector v
VecMat(v, B, c) ==
    [j \in 1 .. c |-> Dot(v, [t \in 1 .. Len(B) |-> B[t][j]], Len(B))]

VecAdd(x, y) == [j \in 1 .. Len(x) |-> FAdd(x[j], y[j])]

VecSub(x, y) == [j \in 1 .. Len(x) |-> FSub(x[j], y[j])]

MatAdd(A, B) == [i \in 1 .. NRows(A) |-> VecAdd(A[i], B[i])]

\* A.transpose() of an r x c matrix (both given: either may be 0)
Transpose(A, r, c) == [j \in 1 .. c |-> [i \in 1 .. r |-> A[i][j]]]

\* A.augment(B): the columns of A followed by the columns of B
Augment(A, B) == [i \in 1 .. NRows(A) |-> A[i] \o B[i]]

\* matrix(R, len, 1, v): the vector v as a column
ColumnMatrix(v) == [i \in 1 .. Len(v) |-> <<v[i]>>]

\* A.matrix_from_columns(cols)
matrix_from_columns(A, cols) ==
    [i \in 1 .. NRows(A) |-> [t \in 1 .. Len(cols) |-> A[i][cols[t]]]]

Identity(m) == [i \in 1 .. m |-> [j \in 1 .. m |-> IF i = j THEN 1 ELSE 0]]

(* ---------------------------------------------------------------------- *)
(* Row reduction: rref, pivots, rank, inverse, right kernel                *)
(* ---------------------------------------------------------------------- *)
\* Gauss-Jordan step on pivot (r, c): row p (the first row >= r with a nonzero
\* entry in column c) is moved to row r and scaled, column c is cleared elsewhere.
Eliminate(A, r, c, p) ==
    LET s == FInv(A[p][c])
        prow == [j \in 1 .. Len(A[p]) |-> FMul(s, A[p][j])]
        Swapped(i) == IF i = r THEN A[p] ELSE IF i = p THEN A[r] ELSE A[i]
    IN  [i \in 1 .. NRows(A) |->
            IF i = r THEN prow
            ELSE LET row == Swapped(i)
                 IN  [j \in 1 .. Len(row) |-> FSub(row[j], FMul(row[c], prow[j]))]]

RECURSIVE Reduce(_, _, _, _, _)
\* Columns scanned left to right, rows top to bottom; piv collects pivot columns.
Reduce(A, r, c, ncols, piv) ==
    IF r > NRows(A) \/ c > ncols
    THEN [mat |-> A, pivots |-> piv]
    ELSE LET cand == {i \in r .. NRows(A) : A[i][c] # 0}
         IN  IF cand = {}
             THEN Reduce(A, r, c + 1, ncols, piv)
             ELSE LET p == CHOOSE i \in cand : \A i2 \in cand : i <= i2
                  IN  Reduce(Eliminate(A, r, c, p), r + 1, c + 1, ncols,
                             Append(piv, c))

\* A.rref() for a matrix with ncols columns
Rref(A, ncols) == Reduce(A, 1, 1, ncols, <<>>).mat

\* Variant of Pivots: the leading columns 1..rank, as if G were in systematic form.
PivotsLeading(A, ncols) ==
    [t \in 1 .. Len(Reduce(A, 1, 1, ncols, <<>>).pivots) |-> t]

\* A.pivots()
Pivots(A, ncols) == Reduce(A, 1, 1, ncols, <<>>).pivots

\* A.rank()
Rank(A, ncols) == Len(Pivots(A, ncols))

\* A.inverse() of an m x m matrix of rank m: the right half of rref([A | I])
Inverse(A, m) ==
    LET red == Rref(Augment(A, Identity(m)), 2 * m)
    IN  [i \in 1 .. m |-> [j \in 1 .. m |-> red[i][m + j]]]

\* A.right_kernel_matrix() of an r x c matrix: a basis of {x : A*x = 0}, one
\* row per free column of rref(A), returned in echelon form.
right_kernel_matrix(A, c) ==
    LET red  == Reduce(A, 1, 1, c, <<>>)
        piv  == red.pivots
        pset == {piv[t] : t \in 1 .. Len(piv)}
        free == {j \in 1 .. c : j \notin pset}
        RowOf(f) == [j \in 1 .. c |->
                        IF j = f THEN 1
                        ELSE IF j \in pset
                             THEN LET t == CHOOSE t \in 1 .. Len(piv) : piv[t] = j
                                  IN  FSub(0, red.mat[t][f])
                             ELSE 0]
        nth(t) == CHOOSE f \in free : Cardinality({g \in free : g < f}) = t - 1
        basis == [t \in 1 .. Cardinality(free) |-> RowOf(nth(t))]
    IN  IF free = {} THEN <<>> ELSE Rref(basis, c)

(* ---------------------------------------------------------------------- *)
(* Bounds of the model                                                     *)
(* ---------------------------------------------------------------------- *)
\* iterations of the trial loop of test() that are explored (range(100) in the source)
MaxTrials == 2

\* rejected samples counted inside one call of random_nonsingular_matrix
MaxRejected == 3

\* (n, k) pairs, 0 < k < n, run with an unconstrained random source: every
\* sample the source can return is explored
Dims == {<<2, 1>>}

\* (n, k) pairs run with a seeded random source, one run per seed 0..MaxSeed
SeededDims == {<<3, 1>>, <<3, 2>>, <<4, 2>>}

MaxSeed == 400

\* (n, k) pairs for which attack is applied to arbitrary public keys
AttackDims == {<<3, 1>>}

\* (n, k) pairs for which dec is applied to arbitrary secret-key tuples
DecDims == {<<2, 1>>}

Null == <<>>

VARIABLES
    n, k,           \* globals n, k
    pc,             \* position of the program
    caller,         \* "run" (the pass of run() itself) or "test" (the loop of test())
    i,              \* loop index of test()
    fail,           \* counter fail of test()
    rejected,       \* samples rejected so far by the running random_nonsingular_matrix
    rng,            \* the random source: unconstrained, or the state of a seeded generator
    G, G0, J, T, HJ, Q,   \* locals of key_gen
    pk, sk,         \* the key pair returned by key_gen
    u, e, ct,       \* plaintext, error vector drawn in enc, ciphertext
    dres,           \* what dec computed: its intermediates and its return value
    ares            \* what attack computed: rank and the two outputs

vars == <<n, k, pc, caller, i, fail, rejected, rng, G, G0, J, T, HJ, Q, pk, sk,
          u, e, ct, dres, ares>>

keyLocals == <<G, G0, J, T, HJ, Q>>

(* ---------------------------------------------------------------------- *)
(* The random source behind random_matrix and random_vector                *)
(* ---------------------------------------------------------------------- *)
\* Unconstrained: a draw returns any value of its type.  Seeded: the draws are
\* the successive outputs of a linear congruential generator.  The generator
\* is no part of the source (the library's generator is used there); it
\* bounds the samples explored for the larger (n, k), one family per seed.
Unconstrained == [seeded |-> FALSE, x |-> 0]

Seeded(s) == [seeded |-> TRUE, x |-> s]

TapeNext(x) == (75 * x + 74) % 65537

RECURSIVE TapeSkip(_, _)
\* the generator state after m more draws
TapeSkip(x, m) == IF m = 0 THEN x ELSE TapeSkip(TapeNext(x), m - 1)

\* the m-th field element drawn from state x
TapeElement(x, m) == (TapeSkip(x, m) \div 16) % q

\* random_vector(R, len)
random_vector(len) ==
    IF rng.seeded
    THEN {[j \in 1 .. len |-> TapeElement(rng.x, j)]}
    ELSE Vectors(len)

\* random_matrix(ring, r, c), entries drawn row by row
random_matrix(r, c) ==
    IF rng.seeded
    THEN {[a \in 1 .. r |-> [j \in 1 .. c |-> TapeElement(rng.x, (a - 1) * c + j)]]}
    ELSE Matrices(r, c)

\* the random source after m field elements were drawn
Drawn(m) == IF rng.seeded THEN Seeded(TapeSkip(rng.x, m)) ELSE rng

(* ---------------------------------------------------------------------- *)
(* random_nonsingular_matrix: the acceptance test of the sampling loop     *)
(* ---------------------------------------------------------------------- *)
\* G.rank() == min(k, n) for a sample X with r rows and c columns
Accepted(X, r, c) == Rank(X, c) = Min(r, c)

\* one iteration of "while True" that rejects its sample: the loop goes round
Reject(r, c) ==
    /\ rng' = Drawn(r * c)
    /\ rejected < MaxRejected
    /\ rejected' = rejected + 1
    /\ UNCHANGED <<n, k, pc, caller, i, fail, keyLocals, pk, sk, u, e, ct, dres, ares>>

(* ---------------------------------------------------------------------- *)
(* key_gen                                                                 *)
(* ---------------------------------------------------------------------- *)
\* random_code(G) for each of the n rows of G0: row i is A[i] * G for a random A[i]
random_code(v, GG, ncols) == VecMat(v, GG, ncols)

\* Variant of KernelOfTJ: the kernel is taken for the first |J| columns of T
\* instead of the columns J.
KernelOfLeadingColumns(TT, JJ, nn) ==
    right_kernel_matrix(
        Transpose(matrix_from_columns(TT, [t \in 1 .. Len(JJ) |-> t]), nn, Len(JJ)), nn)

\* HJ = TJ.transpose().right_kernel_matrix() with TJ = T.matrix_from_columns(J)
KernelOfTJ(TT, JJ, nn) ==
    right_kernel_matrix(Transpose(matrix_from_columns(TT, JJ), nn, Len(JJ)), nn)

\* Variant of PublicG1: the scrambling by M is left out, G1 = G.
PublicG1WithoutM(GG, MM, nn) == GG

\* G1 = G*M
PublicG1(GG, MM, nn) == MatMul(GG, MM, nn)

\* Variant of PublicG2: the summand T is left out, G2 = Q*G0*M.
PublicG2WithoutT(QQ, GG0, TT, MM, nn) == MatMul(MatMul(QQ, GG0, nn), MM, nn)

\* G2 = Q*(G0 + T)*M
PublicG2(QQ, GG0, TT, MM, nn) == MatMul(MatMul(QQ, MatAdd(GG0, TT), nn), MM, nn)

\* G = random_nonsingular_matrix(R, k, n)
SampleG ==
    /\ pc = "G"
    /\ \E X \in random_matrix(k, n) :
          IF Accepted(X, k, n)
          THEN /\ G' = X
               /\ rng' = Drawn(k * n)
               /\ pc' = "G0"
               /\ rejected' = 0
               /\ UNCHANGED <<n, k, caller, i, fail, G0, J, T, HJ, Q, pk, sk,
                              u, e, ct, dres, ares>>
          ELSE Reject(k, n)

\* the loop filling G0 with n random codewords, then J = G.pivots()
FillG0 ==
    /\ pc = "G0"
    /\ \E A \in random_matrix(n, k) :
          G0' = [r \in 1 .. n |-> random_code(A[r], G, n)]
    /\ rng' = Drawn(n * k)
    /\ J' = Pivots(G, n)
    /\ pc' = "T"
    /\ UNCHANGED <<n, k, caller, i, fail, rejected, G, T, HJ, Q, pk, sk,
                   u, e, ct, dres, ares>>

\* T = random_nonsingular_matrix(R, n, n), then TJ and HJ
SampleT ==
    /\ pc = "T"
    /\ \E X \in random_matrix(n, n) :
          IF Accepted(X, n, n)
          THEN /\ T' = X
               /\ rng' = Drawn(n * n)
               /\ HJ' = KernelOfTJ(X, J, n)
               /\ pc' = "L"
               /\ rejected' = 0
               /\ UNCHANGED <<n, k, caller, i, fail, G, G0, J, Q, pk, sk,
                              u, e, ct, dres, ares>>
          ELSE Reject(n, n)

\* L = random_nonsingular_matrix(R, n, n-k), then Q = L*HJ
SampleL ==
    /\ pc = "L"
    /\ \E X \in random_matrix(n, n - k) :
          IF Accepted(X, n, n - k)
          THEN /\ Q' = MatMul(X, HJ, n)
               /\ rng' = Drawn(n * (n - k))
               /\ pc' = "M"
               /\ rejected' = 0
               /\ UNCHANGED <<n, k, caller, i, fail, G, G0, J, T, HJ, pk, sk,
                              u, e, ct, dres, ares>>
          ELSE Reject(n, n - k)

\* M = random_nonsingular_matrix(R, n, n), then G1, G2 and the returned pair
SampleM ==
    /\ pc = "M"
    /\ \E X \in random_matrix(n, n) :
          IF Accepted(X, n, n)
          THEN /\ rng' = Drawn(n * n)
               /\ pk' = [G1 |-> PublicG1(G, X, n), G2 |-> PublicG2(Q, G0, T, X, n)]
               /\ sk' = [G |-> G, M |-> X, T |-> T, Q |-> Q, G0 |-> G0, J |-> J]
               /\ pc' = "enc"
               /\ rejected' = 0
               /\ UNCHANGED <<n, k, caller, i, fail, keyLocals, u, e, ct, dres, ares>>
          ELSE Reject(n, n)

(* ---------------------------------------------------------------------- *)
(* enc                                                                     *)
(* ---------------------------------------------------------------------- *)
\* ct = u*G1 + e*G2
enc(key, uu, ee, nn) == VecAdd(VecMat(uu, key.G1, nn), VecMat(ee, key.G2, nn))

\* e = random_vector(R, n) inside enc, drawn after the k elements of u
EncError(kk, nn) ==
    IF rng.seeded
    THEN {[j \in 1 .. nn |-> TapeElement(rng.x, kk + j)]}
    ELSE Vectors(nn)

\* u = random_vector(R, k); ct = enc(pk, u), which draws e = random_vector(R, n)
Enc ==
    /\ pc = "enc"
    /\ \E uu \in random_vector(k) :
          /\ u' = uu
          /\ \E ee \in EncError(k, n) :
                /\ e' = ee
                /\ ct' = enc(pk, uu, ee, n)
    /\ rng' = Drawn(k + n)
    /\ pc' = "dec"
    /\ UNCHANGED <<n, k, caller, i, fail, rejected, keyLocals, pk, sk, dres, ares>>

(* ---------------------------------------------------------------------- *)
(* dec                                                                     *)
(* ---------------------------------------------------------------------- *)
\* Variant of DecEQT: the inverse of GJ is left out, eQT = y - yJ*G.
DecEQTWithoutInverse(y, yJ, GJ, GG, kk, nn) == VecSub(y, VecMat(yJ, GG, nn))

\* eQT = y - vector(yJ*GJ.inverse()*G)
DecEQT(y, yJ, GJ, GG, kk, nn) ==
    VecSub(y, VecMat(VecMat(yJ, Inverse(GJ, kk), kk), GG, nn))

\* uG = y - eQG0 - eQT
DecUG(y, eQG0, eQT) == VecSub(VecSub(y, eQG0), eQT)

\* Variant of DecSolve: the first column of Gsoln is returned instead of the last.
DecSolveFirstColumn(GG, uG, kk, nn) ==
    LET Gconc == Augment(Transpose(GG, kk, nn), ColumnMatrix(uG))
        Gsoln == Rref(Gconc, kk + 1)
    IN  [r \in 1 .. kk |-> Gsoln[r][1]]

\* return vector(Gsoln[:k,-1]) with Gsoln = G.transpose().augment(uG).rref()
DecSolve(GG, uG, kk, nn) ==
    LET Gconc == Augment(Transpose(GG, kk, nn), ColumnMatrix(uG))
        Gsoln == Rref(Gconc, kk + 1)
    IN  [r \in 1 .. kk |-> Gsoln[r][kk + 1]]

\* dec(sk, ct): raised is the exception of inverse() on a matrix that is
\* singular or not square, which dec does not catch; otherwise the
\* intermediates and the result.
dec(key, c, kk, nn) ==
    LET GJ == matrix_from_columns(key.G, key.J)
    IN  IF \/ Rank(key.M, nn) # nn
           \/ Len(key.J) # kk
           \/ Rank(GJ, kk) # kk
           \/ Rank(key.T, nn) # nn
        THEN [raised |-> TRUE, eQT |-> Null, eQ |-> Null, uG |-> Null, out |-> Null]
        ELSE LET y    == VecMat(c, Inverse(key.M, nn), nn)
                 yJ   == [t \in 1 .. kk |-> y[key.J[t]]]
                 eQT  == DecEQT(y, yJ, GJ, key.G, kk, nn)
                 eQ   == VecMat(eQT, Inverse(key.T, nn), nn)
                 eQG0 == VecMat(eQ, key.G0, nn)
                 uG   == DecUG(y, eQG0, eQT)
             IN  [raised |-> FALSE, eQT |-> eQT, eQ |-> eQ, uG |-> uG,
                  out |-> DecSolve(key.G, uG, kk, nn)]

\* u0 = dec(sk, ct); an uncaught exception ends the program
Dec ==
    /\ pc = "dec"
    /\ dres' = dec(sk, ct, k, n)
    /\ pc' = IF dres'.raised THEN "crashed"
             ELSE IF caller = "dec" THEN "done" ELSE "attack"
    /\ UNCHANGED <<n, k, caller, i, fail, rejected, rng, keyLocals, pk, sk, u, e, ct, ares>>

(* ---------------------------------------------------------------------- *)
(* attack                                                                  *)
(* ---------------------------------------------------------------------- *)
\* G2red = G2.rref()[:n-k, :]
G2Reduced(G2, kk, nn) ==
    LET red == Rref(G2, nn) IN [r \in 1 .. nn - kk |-> red[r]]

\* Variant of AttackGmult: the two blocks are joined in the other order.
AttackGmultSwapped(key, kk, nn) ==
    Augment(Transpose(G2Reduced(key.G2, kk, nn), nn - kk, nn),
            Transpose(key.G1, kk, nn))

\* Gmult = G1t.augment(G2t)
AttackGmult(key, kk, nn) ==
    Augment(Transpose(key.G1, kk, nn),
            Transpose(G2Reduced(key.G2, kk, nn), nn - kk, nn))

\* Gsoln[:k, rank:-1]: rows 0..k-1 of columns rank..n-1 (here rank+1..n)
AttackOut2(Gsoln, rank, kk, nn) ==
    [r \in 1 .. kk |-> [j \in 1 .. nn - rank |-> Gsoln[r][rank + j]]]

\* attack(pk, ct)
attack(key, c, kk, nn) ==
    LET Gmult == AttackGmult(key, kk, nn)
        rank  == Rank(Gmult, nn)
        Gsoln == Rref(Augment(Gmult, ColumnMatrix(c)), nn + 1)
    IN  [rank |-> rank,
         out1 |-> [r \in 1 .. kk |-> Gsoln[r][nn + 1]],
         out2 |-> AttackOut2(Gsoln, rank, kk, nn)]

\* sln1, sln2 = attack(pk, ct); in test(): num_of_sol = sln2.ncols() and
\* fail += 1 when it is not 0
Attack ==
    /\ pc = "attack"
    /\ ares' = attack(pk, ct, k, n)
    /\ fail' = IF caller = "test" /\ NCols(ares'.out2) # 0 THEN fail + 1 ELSE fail
    /\ pc' = IF caller = "attack" THEN "done" ELSE "loop"
    /\ UNCHANGED <<n, k, caller, i, rejected, rng, keyLocals, pk, sk, u, e, ct, dres>>

(* ---------------------------------------------------------------------- *)
(* run() and the loop of test()                                            *)
(* ---------------------------------------------------------------------- *)
\* run() has made its own pass and calls test(): fail = 0 and the loop starts;
\* in test() the loop goes to its next iteration or test() returns.  The
\* values of the pass that ended are dead and are dropped.
Loop ==
    /\ pc = "loop"
    /\ IF caller = "run"
       THEN /\ caller' = "test"
            /\ i' = 0
            /\ fail' = 0
            /\ pc' = "G"
       ELSE /\ caller' = caller
            /\ i' = i + 1
            /\ fail' = fail
            /\ pc' = IF i + 1 < MaxTrials THEN "G" ELSE "done"
    /\ G' = Null /\ G0' = Null /\ J' = Null /\ T' = Null /\ HJ' = Null /\ Q' = Null
    /\ IF pc' = "done"
       THEN UNCHANGED <<pk, sk, u, e, ct, dres, ares>>
       ELSE /\ pk' = Null /\ sk' = Null /\ u' = Null /\ e' = Null /\ ct' = Null
            /\ dres' = Null /\ ares' = Null
    /\ UNCHANGED <<n, k, rejected, rng>>

(* ---------------------------------------------------------------------- *)
(* Specifications                                                          *)
(* ---------------------------------------------------------------------- *)
\* run(): key_gen is entered with nothing computed yet
Init ==
    /\ \/ \E d \in Dims : n = d[1] /\ k = d[2] /\ rng = Unconstrained
       \/ \E d \in SeededDims, s \in 0 .. MaxSeed :
             n = d[1] /\ k = d[2] /\ rng = Seeded(s)
    /\ pc = "G"
    /\ caller = "run"
    /\ i = 0
    /\ fail = 0
    /\ rejected = 0
    /\ G = Null /\ G0 = Null /\ J = Null /\ T = Null /\ HJ = Null /\ Q = Null
    /\ pk = Null /\ sk = Null /\ u = Null /\ e = Null /\ ct = Null
    /\ dres = Null /\ ares = Null

Next == SampleG \/ FillG0 \/ SampleT \/ SampleL \/ SampleM \/ Enc \/ Dec \/ Attack \/ Loop

Spec == Init /\ [][Next]_vars

\* attack as a function of any public key of the documented shape: G1 a k x n
\* matrix of rank k, G2 an n x n matrix of rank at most n-k, and any u and e
InitAttack ==
    /\ \E d \in AttackDims : n = d[1] /\ k = d[2]
    /\ rng = Unconstrained
    /\ pc = "attack"
    /\ caller = "attack"
    /\ i = 0
    /\ fail = 0
    /\ rejected = 0
    /\ G = Null /\ G0 = Null /\ J = Null /\ T = Null /\ HJ = Null /\ Q = Null
    /\ sk = Null /\ dres = Null /\ ares = Null
    /\ \E G1 \in Matrices(k, n), G2 \in Matrices(n, n) :
          /\ Rank(G1, n) = k
          /\ Rank(G2, n) <= n - k
          /\ pk = [G1 |-> G1, G2 |-> G2]
    /\ u \in Vectors(k)
    /\ e \in Vectors(n)
    /\ ct = enc(pk, u, e, n)

SpecAttack == InitAttack /\ [][Attack]_vars

\* dec as a function of any secret-key tuple on which it raises no exception
\* (G of rank k with J = G.pivots(), M and T invertible) and any vector ct
InitDec ==
    /\ \E d \in DecDims : n = d[1] /\ k = d[2]
    /\ rng = Unconstrained
    /\ pc = "dec"
    /\ caller = "dec"
    /\ i = 0
    /\ fail = 0
    /\ rejected = 0
    /\ G = Null /\ G0 = Null /\ J = Null /\ T = Null /\ HJ = Null /\ Q = Null
    /\ pk = Null /\ u = Null /\ e = Null /\ dres = Null /\ ares = Null
    /\ \E GG \in Matrices(k, n), MM \in Matrices(n, n), TT \in Matrices(n, n),
          QQ \in Matrices(n, n), GG0 \in Matrices(n, n) :
          /\ Accepted(GG, k, n)
          /\ Accepted(MM, n, n)
          /\ Accepted(TT, n, n)
          /\ sk = [G |-> GG, M |-> MM, T |-> TT, Q |-> QQ, G0 |-> GG0,
                   J |-> Pivots(GG, n)]
    /\ ct \in Vectors(n)

SpecDec == InitDec /\ [][Dec]_vars

(* ---------------------------------------------------------------------- *)
(* Positions at which the values the properties speak of exist             *)
(* ---------------------------------------------------------------------- *)
InProgram == caller \in {"run", "test"}

\* key_gen has computed J (line 64)
PivotsTaken == InProgram /\ pc \in {"T", "L", "M"}

\* key_gen has returned (pk, sk)
KeyReturned == InProgram /\ pc \in {"enc", "dec", "attack", "loop", "done", "crashed"}

\* dec has returned its vector
DecReturned == InProgram /\ pc \in {"attack", "loop", "done"}

\* dec has ended, by a return or by an exception
DecEnded == DecReturned \/ (InProgram /\ pc = "crashed")

\* attack has returned its pair
AttackReturned == InProgram /\ pc \in {"loop", "done"}

IsZero(v) == \A j \in 1 .. Len(v) : v[j] = 0

\* out2 * x for a k x m matrix out2 and a vector x of length m
MatVec(A, x) == [r \in 1 .. NRows(A) |-> Dot(A[r], x, Len(x))]

(* ---------------------------------------------------------------------- *)
(* Properties                                                              *)
(* ---------------------------------------------------------------------- *)

\* C1: round trip.  Whenever dec has ended on a ciphertext ct = u*G1 + e*G2
\* made with a key pair of key_gen, it has returned (no exception) and the
\* vector it returned is the plaintext u.
C1_RoundTrip == DecEnded => (~dres.raised /\ dres.out = u)

C1_Witness ==
    /\ DecReturned /\ dres.out = u
    /\ k = 2 /\ ~IsZero(u) /\ ~IsZero(VecMat(e, pk.G2, n))

\* C2: whenever attack has returned with rank(Gmult) = n, its second output
\* has zero columns and its first output is the plaintext u.
C2_AttackRecovers ==
    (AttackReturned /\ ares.rank = n) => (NCols(ares.out2) = 0 /\ ares.out1 = u)

C2_Witness ==
    /\ AttackReturned /\ ares.rank = n /\ ares.out1 = u
    /\ k = 2 /\ ~IsZero(u) /\ ~IsZero(VecMat(e, pk.G2, n)) /\ ares.out1 # ct

\* C3: for every returned key pair rank(G2) = n-k, and the rows attack keeps,
\* G2.rref()[:n-k, :], are exactly the nonzero rows of rref(G2).
C3_G2Rank ==
    KeyReturned =>
        LET red == Rref(pk.G2, n)
            kept == G2Reduced(pk.G2, k, n)
        IN  /\ Rank(pk.G2, n) = n - k
            /\ \A r \in 1 .. n - k : ~IsZero(kept[r])
            /\ \A r \in 1 .. n : ~IsZero(red[r]) => (r <= n - k /\ kept[r] = red[r])

C3_Witness ==
    /\ KeyReturned /\ n - k = 2 /\ Rank(pk.G2, n) = 2
    /\ ~IsZero(Rref(pk.G2, n)[2]) /\ IsZero(Rref(pk.G2, n)[3])

\* JJ is k distinct column indices and the columns JJ of GG form a matrix of rank k
PivotsInvertible(GG, JJ) ==
    /\ Len(JJ) = k
    /\ \A t \in 1 .. Len(JJ) : JJ[t] \in 1 .. n
    /\ \A s, t \in 1 .. Len(JJ) : s # t => JJ[s] # JJ[t]
    /\ Rank(matrix_from_columns(GG, JJ), Len(JJ)) = k

\* C7: pivot invertibility.  J has exactly k distinct column indices of G, the
\* k x k submatrix of G at the columns J has rank k, and dec never ends with
\* the exception of inverse() on a singular matrix.
C7_PivotInvertible ==
    /\ PivotsTaken => PivotsInvertible(G, J)
    /\ KeyReturned => PivotsInvertible(sk.G, sk.J)
    /\ pc # "crashed"

C7_Witness ==
    /\ DecReturned /\ k = 2 /\ sk.J = <<1, 3>>
    /\ matrix_from_columns(sk.G, sk.J) # Identity(2)

ColumnsZero(A, JJ) ==
    \A r \in 1 .. NRows(A) : \A t \in 1 .. Len(JJ) : A[r][JJ[t]] = 0

\* C9: trapdoor structure.  HJ has exactly n-k rows and HJ*TJ = 0; Q = L*HJ has
\* rank exactly n-k and the columns of Q*T at the indices J are zero.
C9_Trapdoor ==
    /\ (InProgram /\ pc \in {"L", "M"}) =>
          /\ Len(HJ) = n - k
          /\ Rank(HJ, n) = n - k
          /\ ColumnsZero(MatMul(HJ, T, n), J)
    /\ (InProgram /\ pc = "M") =>
          /\ Rank(Q, n) = n - k
          /\ ColumnsZero(MatMul(Q, T, n), J)
    /\ KeyReturned =>
          /\ Rank(sk.Q, n) = n - k
          /\ ColumnsZero(MatMul(sk.Q, sk.T, n), sk.J)

C9_Witness ==
    /\ InProgram /\ pc = "M" /\ n - k = 2 /\ Len(HJ) = 2
    /\ Rank(Q, n) = 2 /\ J # <<1, 2>>
    /\ ColumnsZero(MatMul(Q, T, n), J)

\* C10: the attack never fails on generated keys.  Whenever attack has
\* returned, rank(Gmult) = n and out2 has zero columns; the counter fail of
\* test() is 0 at every point of the run.
C10_AttackNeverFails ==
    /\ fail = 0
    /\ AttackReturned =>
          /\ Rank(AttackGmult(pk, k, n), n) = n
          /\ ares.rank = n
          /\ NCols(ares.out2) = 0

C10_Witness ==
    /\ caller = "test" /\ pc = "done" /\ i = MaxTrials /\ fail = 0
    /\ n - k = 2 /\ ares.rank = n

\* C4: attack on any public key of the documented shape.  Whenever attack has
\* returned (out1, out2) for ct = u*G1 + e*G2, some x gives u = out1 + out2*x.
C4_AllCandidates ==
    (caller = "attack" /\ pc = "done") =>
        \E x \in Vectors(NCols(ares.out2)) :
            u = VecAdd(ares.out1, MatVec(ares.out2, x))

\* how a call of dec ends: by its return, or by the exception of inverse()
DecOutcome(d) == IF d.raised THEN "ZeroDivisionError" ELSE "returned"

\* C5: dec on a system [transpose(G) | uG] without solution.  Whenever dec has
\* ended, either uG = w*G has a solution w and the returned vector is one, or
\* the outcome is the failure Inconsistent.
C5_Inconsistent ==
    (caller = "dec" /\ pc = "done") =>
        IF \E w \in Vectors(k) : VecMat(w, sk.G, n) = dres.uG
        THEN DecOutcome(dres) = "returned" /\ VecMat(dres.out, sk.G, n) = dres.uG
        ELSE DecOutcome(dres) = "Inconsistent"

\* C6: bounded retry.  Once random_nonsingular_matrix has rejected MaxRejected
\* samples in one call (the largest count the model follows, so any smaller
\* retry bound is passed as well), the program is at the failure
\* GenerationFailed and no longer in the sampling loop.
C6_BoundedRetry == rejected >= MaxRejected => pc = "GenerationFailed"

====
